---- MODULE Spec2Model ----
(***************************************************************************)
(* Recruitment Email Agent: one call of                                    *)
(* RecruitmentEmailAgent.send_recruitment_email, from the configuration    *)
(* load to the activity log, with the generation service, the resume file, *)
(* the SMTP relay and the log file as the environment.                     *)
(*                                                                         *)
(* Python strings that the code inspects character by character (subject   *)
(* lines, names that end up in a subject) are sequences of one-character   *)
(* strings.  Strings that are only stored and compared are sequences of    *)
(* one chunk.  Python's None is the value None below, distinct from the    *)
(* empty string <<>>; both are falsy.                                      *)
(***************************************************************************)
EXTENDS Integers, Sequences, FiniteSets, TLC

\* ------------------------------------------------------------------ bounds
\* How many characters beyond the 80-character limit a generated answer may
\* run to.
MaxOver == 2
\* How many records an earlier run may have left in the log file.
MaxPrior == 1

\* ------------------------------------------------------- program constants
MaxSubjectLen == 80
TruncLen == 77
LabelLen == 8
MinSubjectLen == 5

\* ------------------------------------------------------------ Python values
None == <<"<None>">>
Truthy(v) == v # None /\ v # <<>>

Whitespace == {" ", "\t", "\n", "\r"}
UpperCase == <<"A", "B", "C", "D", "E", "F", "G", "H", "I", "J", "K", "L", "M",
               "N", "O", "P", "Q", "R", "S", "T", "U", "V", "W", "X", "Y", "Z">>
LowerCase == <<"a", "b", "c", "d", "e", "f", "g", "h", "i", "j", "k", "l", "m",
               "n", "o", "p", "q", "r", "s", "t", "u", "v", "w", "x", "y", "z">>

\* str.lower() on one character
LowerChar(c) ==
    IF \E i \in 1..Len(UpperCase) : UpperCase[i] = c
    THEN LowerCase[CHOOSE i \in 1..Len(UpperCase) : UpperCase[i] = c]
    ELSE c

\* str.lower()
Lower(s) == [i \in 1..Len(s) |-> LowerChar(s[i])]

RECURSIVE LStrip(_)
LStrip(s) == IF s # <<>> /\ Head(s) \in Whitespace THEN LStrip(Tail(s)) ELSE s

RECURSIVE RStrip(_)
RStrip(s) ==
    IF s # <<>> /\ s[Len(s)] \in Whitespace THEN RStrip(SubSeq(s, 1, Len(s) - 1)) ELSE s

\* str.strip()
Strip(s) == RStrip(LStrip(s))

\* str.replace(c, '') for every c of chars
Remove(s, chars) == SelectSeq(s, LAMBDA c : c \notin chars)

\* str.replace(from, to) for single characters
ReplaceChar(s, from, to) == [i \in 1..Len(s) |-> IF s[i] = from THEN to ELSE s[i]]

\* str.startswith(p)
StartsWith(s, p) == Len(s) >= Len(p) /\ SubSeq(s, 1, Len(p)) = p

\* str.endswith(p)
EndsWith(s, p) == Len(s) >= Len(p) /\ SubSeq(s, Len(s) - Len(p) + 1, Len(s)) = p

\* sub in s
Contains(s, sub) ==
    \E i \in 1..(Len(s) - Len(sub) + 1) : SubSeq(s, i, i + Len(sub) - 1) = sub

\* s.split(':')[0]
BeforeColon(s) ==
    IF \E i \in 1..Len(s) : s[i] = ":"
    THEN SubSeq(s, 1, (CHOOSE i \in 1..Len(s) : s[i] = ":" /\ \A j \in 1..(i - 1) : s[j] # ":") - 1)
    ELSE s

\* n copies of the character c
Repeat(c, n) == [i \in 1..n |-> c]

\* ---------------------------------------------------------------- literals
FallbackWithCompanyPrefix ==
    <<"A", "p", "p", "l", "i", "c", "a", "t", "i", "o", "n", " ", "f", "o", "r", " ",
      "P", "o", "s", "i", "t", "i", "o", "n", " ", "a", "t", " ">>
FallbackGenericPrefix ==
    <<"S", "o", "f", "t", "w", "a", "r", "e", " ", "E", "n", "g", "i", "n", "e", "e", "r", " ",
      "A", "p", "p", "l", "i", "c", "a", "t", "i", "o", "n", " ", "-", " ">>
NameSeparator == <<" ", "-", " ">>
GenericCompany ==
    <<"y", "o", "u", "r", " ", "o", "r", "g", "a", "n", "i", "z", "a", "t", "i", "o", "n">>
SubjectLabel == <<"s", "u", "b", "j", "e", "c", "t", ":">>
Ellipsis == <<".", ".", ".">>
FileNotFoundSubject ==
    <<"F", "a", "i", "l", "e", "d", " ", "-", " ", "F", "i", "l", "e", " ", "N", "o", "t", " ",
      "F", "o", "u", "n", "d">>
UnexpectedErrorSubject ==
    <<"F", "a", "i", "l", "e", "d", " ", "-", " ", "U", "n", "e", "x", "p", "e", "c", "t", "e", "d",
      " ", "E", "r", "r", "o", "r">>
NotSpecified == <<"Not specified">>
HiringManager == <<"Hiring Manager">>
SmtpFailedMessage == <<"SMTP sending failed">>
ModelName == <<"m", "i", "s", "t", "r", "a", "l">>

bad_indicators ==
    { <<"i", " ", "c", "a", "n", "n", "o", "t">>,
      <<"i", " ", "c", "a", "n", "'", "t">>,
      <<"a", "s", " ", "a", "n", " ", "a", "i">>,
      <<"s", "o", "r", "r", "y">>,
      <<"i", "n", "a", "p", "p", "r", "o", "p", "r", "i", "a", "t", "e">>,
      <<"u", "n", "a", "b", "l", "e", " ", "t", "o">>,
      <<"`", "`", "`">>,
      <<"h", "e", "r", "e", " ", "i", "s">>,
      <<"h", "e", "r", "e", "'", "s", " ", "a">>,
      <<"h", "e", "r", "e", " ", "a", "r", "e">> }

\* ------------------------------------------------- OllamaClient (pure part)
\* The cleaned subject before the length limit is applied.
CleanedUntruncated(subject) ==
    IF subject = <<>> THEN <<>>
    ELSE LET s1 == Strip(subject)
             s2 == Remove(s1, {"\"", "'"})
             s3 == ReplaceChar(ReplaceChar(s2, "\n", " "), "\r", " ")
         IN  IF StartsWith(Lower(s3), SubjectLabel)
             THEN Strip(SubSeq(s3, LabelLen + 1, Len(s3)))
             ELSE s3

\* subject[:77] + "..." with an off-by-one in the slice
limit_length_off_by_one(s) ==
    IF Len(s) > MaxSubjectLen THEN SubSeq(s, 1, TruncLen + 1) \o Ellipsis ELSE s

limit_length(s) ==
    IF Len(s) > MaxSubjectLen THEN SubSeq(s, 1, TruncLen) \o Ellipsis ELSE s

_clean_subject(subject) == limit_length(CleanedUntruncated(subject))

\* a validation that looks for the markers without lowering the subject
_is_valid_subject_case_sensitive(subject) ==
    /\ ~(subject = <<>> \/ Len(Strip(subject)) < MinSubjectLen)
    /\ \A b \in bad_indicators : ~Contains(subject, b)

_is_valid_subject(subject) ==
    /\ ~(subject = <<>> \/ Len(Strip(subject)) < MinSubjectLen)
    /\ \A b \in bad_indicators : ~Contains(Lower(subject), b)

\* the fallback without the test for the generic default company
_default_subject_any_company(sender_name, company_name) ==
    IF Truthy(company_name)
    THEN FallbackWithCompanyPrefix \o company_name \o NameSeparator \o sender_name
    ELSE FallbackGenericPrefix \o sender_name

_default_subject(sender_name, company_name) ==
    IF Truthy(company_name) /\ company_name # GenericCompany
    THEN FallbackWithCompanyPrefix \o company_name \o NameSeparator \o sender_name
    ELSE FallbackGenericPrefix \o sender_name

\* ------------------------------------------- the generation service (HTTP)
\* A response to GET /api/tags or POST /api/generate: a transport error
\* (requests.exceptions.ConnectionError / Timeout), or a status and a body.
Response(err, status, body) == [err |-> err, status |-> status, body |-> body]

ModelEntry(has_name, name) == [has_name |-> has_name, name |-> name]
TagsBody(type, has_models, models) ==
    [type |-> type, has_models |-> has_models, models |-> models]
NoBody == TagsBody("none", FALSE, <<>>)

\* Bodies of GET /api/tags: not JSON, JSON that is no object, an object
\* without 'models', a model entry without 'name', lists without and with
\* the configured model.
TagsBodies ==
    { TagsBody("not_json", FALSE, <<>>),
      TagsBody("array", FALSE, <<>>),
      TagsBody("object", FALSE, <<>>),
      TagsBody("object", TRUE, <<ModelEntry(FALSE, <<>>)>>),
      TagsBody("object", TRUE, <<ModelEntry(TRUE, <<"l", "l", "a", "m", "a", "3", ":", "8", "b">>)>>),
      TagsBody("object", TRUE,
               <<ModelEntry(TRUE, <<"m", "i", "s", "t", "r", "a", "l", ":", "l", "a", "t", "e", "s", "t">>)>>) }

TagsResponses ==
    { Response("connection", 0, NoBody), Response("timeout", 0, NoBody) }
    \cup { Response("none", 500, b) : b \in {NoBody} }
    \cup { Response("none", 200, b) : b \in TagsBodies }

GenBody(type, has_response, is_str, response) ==
    [type |-> type, has_response |-> has_response, is_str |-> is_str, response |-> response]
NoGenBody == GenBody("none", FALSE, FALSE, <<>>)

\* Lengths, after cleaning, of the long answers of the service.
LongLens == (MaxSubjectLen - 1)..(MaxSubjectLen + MaxOver)

\* The 'response' strings the service answers with.
RawResponses ==
    { <<>>,
      <<"H", "i">>,
      <<"S", "e", "n", "i", "o", "r", " ", "E", "n", "g", "i", "n", "e", "e", "r", " ", "-", " ",
        "J", "a", "n", "e">>,
      <<"\"", "H", "e", "l", "l", "o", "\n", "T", "e", "a", "m", "\"", "\n">>,
      <<"S", "u", "b", "j", "e", "c", "t", ":", " ", "H", "i", " ", "a", "l", "l">>,
      <<"S", "o", "r", "r", "y", ",", " ", "I", " ", "c", "a", "n", "n", "o", "t">> }
    \cup { Repeat("a", n) : n \in LongLens }
    \cup { <<"S", "U", "B", "J", "E", "C", "T", ":", " ">> \o Repeat("a", n) : n \in LongLens }
    \cup { <<"S", "o", "r", "r", "y", " ">> \o Repeat("a", n - 6) : n \in LongLens }
    \cup { <<"\"">> \o Repeat(" ", n) \o <<"\"">> : n \in LongLens }

GenResponses ==
    { Response("connection", 0, NoGenBody), Response("timeout", 0, NoGenBody),
      Response("none", 500, NoGenBody),
      Response("none", 200, GenBody("not_json", FALSE, FALSE, <<>>)),
      Response("none", 200, GenBody("array", FALSE, FALSE, <<>>)),
      Response("none", 200, GenBody("object", FALSE, FALSE, <<>>)),
      Response("none", 200, GenBody("object", TRUE, FALSE, <<>>)) }
    \cup { Response("none", 200, GenBody("object", TRUE, TRUE, r)) : r \in RawResponses }

is_ollama_running(resp) == resp.err = "none" /\ resp.status = 200

\* What response.json() and the list comprehension over models_data raise,
\* None when they raise nothing.  response.json() on a body that is not JSON
\* raises requests.exceptions.JSONDecodeError, a RequestException, which the
\* callers catch; the others are not RequestExceptions.
ModelsError(resp) ==
    IF resp.body.type = "array" THEN <<"AttributeError">>
    ELSE IF resp.body.type = "object" /\ resp.body.has_models
            /\ \E i \in 1..Len(resp.body.models) : ~resp.body.models[i].has_name
    THEN <<"KeyError('name')">>
    ELSE None

ModelNames(resp) ==
    IF resp.body.type = "object" /\ resp.body.has_models
    THEN [i \in 1..Len(resp.body.models) |-> resp.body.models[i].name]
    ELSE <<>>

Returned(value) == [raised |-> None, value |-> value]
Raised(e) == [raised |-> e, value |-> FALSE]

is_model_available(resp) ==
    IF resp.err # "none" THEN Returned(FALSE)
    ELSE IF resp.status # 200 THEN Returned(FALSE)
    ELSE IF resp.body.type = "not_json" THEN Returned(FALSE)
    ELSE IF ModelsError(resp) # None THEN Raised(ModelsError(resp))
    ELSE Returned(\E i \in 1..Len(ModelNames(resp)) :
                      BeforeColon(ModelNames(resp)[i]) = ModelName)

get_available_models(resp) ==
    IF resp.err # "none" THEN Returned(FALSE)
    ELSE IF resp.status # 200 THEN Returned(FALSE)
    ELSE IF resp.body.type = "not_json" THEN Returned(FALSE)
    ELSE IF ModelsError(resp) # None THEN Raised(ModelsError(resp))
    ELSE Returned(ModelNames(resp) # <<>>)

Generated(path, subject) == [path |-> path, subject |-> subject]

\* generate_subject_line from the POST on: every branch returns a subject.
generate_from_response(resp, sender_name, company_name) ==
    LET fallback == _default_subject(sender_name, company_name)
    IN  IF resp.err = "timeout" THEN Generated("timeout", fallback)
        ELSE IF resp.err # "none" THEN Generated("request_failed", fallback)
        ELSE IF resp.status # 200 THEN Generated("api_error", fallback)
        ELSE IF resp.body.type = "not_json" THEN Generated("request_failed", fallback)
        ELSE IF resp.body.type # "object" THEN Generated("unexpected", fallback)
        ELSE IF resp.body.has_response /\ ~resp.body.is_str
        THEN Generated("unexpected", fallback)
        ELSE LET raw == IF resp.body.has_response THEN resp.body.response ELSE <<>>
                 subject == _clean_subject(Strip(raw))
             IN  IF _is_valid_subject(subject)
                 THEN Generated("generated", subject)
                 ELSE Generated("invalid", fallback)

\* ------------------------------------------------------------ configuration
ConfigKeys ==
    {"sender_email", "sender_password", "sender_name", "email_template", "template_preference"}

Lit(text) == [kind |-> "lit", text |-> text]
Ph(name) == [kind |-> "ph", text |-> name]

\* template_person_only.txt and template_person_company.txt: literal text
\* and the placeholders {name}, {company}, {sender_name}.
TemplatePersonOnly == <<Lit("Dear "), Ph("name"), Lit(", regards, "), Ph("sender_name")>>
TemplatePersonCompany ==
    <<Lit("Dear "), Ph("name"), Lit(" of "), Ph("company"), Lit(", regards, "), Ph("sender_name")>>
Templates == {TemplatePersonOnly, TemplatePersonCompany}
Variants == {"person_only", "person_company"}

SenderName == <<"J", "a", "n", "e", " ", "D", "o", "e">>

\* The dict ConfigManager.config holds; keys is the set of keys it has.
Config(keys, template, preference) ==
    [present |-> TRUE, keys |-> keys,
     sender_email |-> <<"jane@gmail.com">>, sender_password |-> <<"app-password">>,
     sender_name |-> SenderName, email_template |-> template,
     template_preference |-> preference]

\* ConfigManager.config = None
NoConfig ==
    [present |-> FALSE, keys |-> {},
     sender_email |-> None, sender_password |-> None,
     sender_name |-> None, email_template |-> <<>>,
     template_preference |-> "person_company"]

\* What load_config can leave in ConfigManager.config: a complete record for
\* either variant with either template, or a record read from a config file
\* that lacks one key.
Configs ==
    { Config(ConfigKeys, t, v) : t \in Templates, v \in Variants }
    \cup { Config(ConfigKeys \ {k}, TemplatePersonCompany, "person_company") : k \in ConfigKeys }

\* ------------------------------------------------------------- the request
RecipientEmail == <<"a@b.com">>
ResumeFile == <<"resume/resume.pdf">>
RecipientNames == {None, <<"Ann">>}
CompanyNames == {None, GenericCompany, <<"A", "c", "m", "e">>}
BccEmails == {None, <<>>, <<"x@y.com">>}
CustomSubjects == {None, <<"H", "e", "l", "l", "o">>}

Request(name, company, bcc, custom) ==
    [recipient_email |-> RecipientEmail, recipient_name |-> name, company_name |-> company,
     bcc_email |-> bcc, resume_file |-> ResumeFile, custom_subject |-> custom]
NoRequest ==
    [recipient_email |-> None, recipient_name |-> None, company_name |-> None,
     bcc_email |-> None, resume_file |-> None, custom_subject |-> None]

\* ------------------------------------------------------------ the log file
ActivityRecord(timestamp, recipient, company, subject, success, error) ==
    [timestamp |-> timestamp, recipient |-> recipient,
     company |-> IF Truthy(company) THEN company ELSE NotSpecified,
     subject |-> subject, success |-> success, error |-> error]

LogFile(kind, recs) == [kind |-> kind, recs |-> recs]

\* A record an earlier run appended.
PriorRecord(i) ==
    ActivityRecord(i - 1, RecipientEmail, None, FallbackGenericPrefix \o SenderName, TRUE, None)

\* The states sent_emails.json can be in when the send starts: absent,
\* empty, not JSON, unreadable, JSON that is no array, or the array an
\* earlier run wrote.
LogFiles ==
    { LogFile(k, <<>>) : k \in {"absent", "empty", "invalid", "unreadable", "nonarray"} }
    \cup { LogFile("array", [i \in 1..n |-> PriorRecord(i)]) : n \in 0..MaxPrior }

\* Outcomes of open(log_file, 'w') and json.dump: written, open refused
\* (file untouched), dump failed after the file was truncated.
WriteOutcomes == {"ok", "open_failed", "dump_failed"}

Logged(file, raised, write) == [file |-> file, raised |-> raised, write |-> write]

\* a writer that lets the error of the write escape
log_email_activity_write_raises(file, entry, w) ==
    IF file.kind = "unreadable" THEN Logged(file, <<"PermissionError">>, "not_reached")
    ELSE IF file.kind = "nonarray" THEN Logged(file, <<"AttributeError">>, "not_reached")
    ELSE LET logs == IF file.kind = "array" THEN file.recs ELSE <<>>
         IN  CASE w = "ok" -> Logged(LogFile("array", Append(logs, entry)), None, "ok")
               [] w = "open_failed" -> Logged(file, <<"OSError">>, "failed")
               [] w = "dump_failed" -> Logged(LogFile("invalid", <<>>), <<"OSError">>, "failed")

\* a writer that forgets the records already in the file
log_email_activity_overwrites(file, entry, w) ==
    IF file.kind = "unreadable" THEN Logged(file, <<"PermissionError">>, "not_reached")
    ELSE IF file.kind = "nonarray" THEN Logged(file, <<"AttributeError">>, "not_reached")
    ELSE CASE w = "ok" -> Logged(LogFile("array", <<entry>>), None, "ok")
           [] w = "open_failed" -> Logged(file, None, "failed")
           [] w = "dump_failed" -> Logged(LogFile("invalid", <<>>), None, "failed")

\* a writer that does not recover from a file that is not JSON
log_email_activity_no_recovery(file, entry, w) ==
    IF file.kind = "unreadable" THEN Logged(file, <<"PermissionError">>, "not_reached")
    ELSE IF file.kind = "nonarray" THEN Logged(file, <<"AttributeError">>, "not_reached")
    ELSE IF file.kind \in {"empty", "invalid"}
    THEN Logged(file, <<"JSONDecodeError">>, "not_reached")
    ELSE LET logs == IF file.kind = "array" THEN file.recs ELSE <<>>
         IN  CASE w = "ok" -> Logged(LogFile("array", Append(logs, entry)), None, "ok")
               [] w = "open_failed" -> Logged(file, None, "failed")
               [] w = "dump_failed" -> Logged(LogFile("invalid", <<>>), None, "failed")

\* log_email_activity: the file after the call, the exception it lets
\* escape (None when it returns), and how the write went.
log_email_activity(file, entry, w) ==
    IF file.kind = "unreadable" THEN Logged(file, <<"PermissionError">>, "not_reached")
    ELSE IF file.kind = "nonarray" THEN Logged(file, <<"AttributeError">>, "not_reached")
    ELSE LET logs == IF file.kind = "array" THEN file.recs ELSE <<>>
         IN  CASE w = "ok" -> Logged(LogFile("array", Append(logs, entry)), None, "ok")
               [] w = "open_failed" -> Logged(file, None, "failed")
               [] w = "dump_failed" -> Logged(LogFile("invalid", <<>>), None, "failed")

\* Lines 124-126: json.load raised JSONDecodeError, the function prints
\* "Log file corrupted. Starting fresh log." and goes on with no records.
corruption_reported(file) == file.kind \in {"empty", "invalid"}

\* Reading the log back, as show_recent_emails does: nothing when the file
\* is absent, the array json.load returns, or a failure it reports.
ReadBack(ok, recs) == [ok |-> ok, recs |-> recs]

show_recent_emails(file) ==
    CASE file.kind = "absent" -> ReadBack(TRUE, <<>>)
      [] file.kind = "array" -> ReadBack(TRUE, file.recs)
      [] OTHER -> ReadBack(FALSE, <<>>)

\* ------------------------------------------------------ template rendering
\* str.format(**kwargs): the first placeholder that kwargs does not supply,
\* None when all are supplied.
MissingField(template, kwargs) ==
    IF \E i \in 1..Len(template) : template[i].kind = "ph" /\ template[i].text \notin DOMAIN kwargs
    THEN template[CHOOSE i \in 1..Len(template) :
                     /\ template[i].kind = "ph" /\ template[i].text \notin DOMAIN kwargs
                     /\ \A j \in 1..(i - 1) :
                            ~(template[j].kind = "ph" /\ template[j].text \notin DOMAIN kwargs)].text
    ELSE "none"

Format(template, kwargs) ==
    [i \in 1..Len(template) |->
        IF template[i].kind = "lit" THEN <<template[i].text>> ELSE kwargs[template[i].text]]

Rendered(raised, body) == [raised |-> raised, body |-> body]

\* Lines 144-164 of send_recruitment_email: the body, or the exception.
render_body(cfg, request) ==
    IF "email_template" \notin cfg.keys THEN Rendered(<<"KeyError('email_template')">>, <<>>)
    ELSE IF "sender_name" \notin cfg.keys THEN Rendered(<<"KeyError('sender_name')">>, <<>>)
    ELSE LET display_name ==
                 IF Truthy(request.recipient_name) THEN request.recipient_name ELSE HiringManager
             display_company ==
                 IF Truthy(request.company_name) THEN request.company_name ELSE GenericCompany
             person_only == "template_preference" \in cfg.keys
                            /\ cfg.template_preference = "person_only"
             kwargs == IF person_only
                       THEN [name |-> display_name, sender_name |-> cfg.sender_name]
                       ELSE [name |-> display_name, company |-> display_company,
                             sender_name |-> cfg.sender_name]
         IN  IF MissingField(cfg.email_template, kwargs) # "none"
             THEN Rendered(<<"KeyError", MissingField(cfg.email_template, kwargs)>>, <<>>)
             ELSE Rendered(None, Format(cfg.email_template, kwargs))

\* -------------------------------------------------------------------- state
VARIABLES
    pc,            \* where the run is: "start", "ready", a step of the send, "done"
    config,        \* ConfigManager.config
    req,           \* the arguments of send_recruitment_email
    subject,       \* the local subject, None until it is set
    genPath,       \* the branch generate_subject_line left by, "not_called" before
    genResponse,   \* generate_subject_line's local: the 'response' string of
                   \* POST /api/generate, None when there is none
    genSubject,    \* what generate_subject_line returns, None before it returns
    unreachable,   \* the status probe met a transport error (no answer from the service)
    email_body,    \* the local email_body, None until it is rendered
    message,       \* the MIMEMultipart message
    recipients,    \* the envelope recipient list
    conn,          \* the SMTP connection (server): "none", "connected", "encrypted",
                   \* "authenticated", "sent", "closed" (quit), "dropped" (closed by the peer)
    smtpSteps,     \* the SMTP calls made so far, in order
    smtpError,     \* the except clause _send_via_smtp left by, "none" if it did not
    transmitted,   \* send_message completed
    success,       \* what _send_via_smtp returned: "unset", "true", "false"
    exc,           \* the exception being handled, None if there is none
    failedAt,      \* the step that failed first, "none" if none did
    result,        \* what send_recruitment_email returned: "none", "true", "false"
    raised,        \* send_recruitment_email let an exception escape
    logFile,       \* sent_emails.json
    logCalls,      \* the records handed to log_email_activity, in order
    writeFailed,   \* a write of the log file failed
    startedFresh,  \* the last log_email_activity call found the file corrupted and
                   \* said it starts a fresh log
    lastWrite,     \* how the write of the last log_email_activity call went:
                   \* "none" before the first call, "ok", "failed", "not_reached"
    clock,         \* datetime.now()
    httpGets,      \* GET /api/tags requests issued
    httpPosts,     \* POST /api/generate requests issued
    smtpConnects,  \* SMTP connection attempts
    inputs,        \* the locals of main that hold what the user entered
    response,      \* the local response of confirm_action, None before the prompt
    interrupted    \* main caught KeyboardInterrupt

vars == <<pc, config, req, subject, genPath, genResponse, genSubject, unreachable,
          email_body, message, recipients,
          conn, smtpSteps, smtpError, transmitted, success, exc, failedAt, result, raised,
          logFile, logCalls, writeFailed, startedFresh, lastWrite, clock, httpGets,
          httpPosts, smtpConnects, inputs, response, interrupted>>

genVars == <<subject, genPath, genResponse, genSubject, unreachable, httpGets, httpPosts>>
msgVars == <<email_body, message, recipients>>
smtpVars == <<conn, smtpSteps, smtpError, transmitted, success, smtpConnects>>
logVars == <<logFile, logCalls, writeFailed, startedFresh, lastWrite, clock>>
endVars == <<result, raised>>
mainVars == <<inputs, response, interrupted>>

\* main's locals before any prompt.
NoInputs ==
    [recipient_email |-> None, recipient_name |-> None, company_name |-> None,
     template_choice |-> "none", bcc_email |-> None, custom_subject |-> None,
     resume_file |-> None]

NoMessage ==
    [built |-> FALSE, From |-> None, To |-> None, Subject |-> None, Bcc |-> None,
     body |-> None, attachment |-> None]

\* Nothing has run yet: every local is unset, nothing was sent or logged.
Idle ==
    /\ config = NoConfig
    /\ req = NoRequest
    /\ subject = None
    /\ genPath = "not_called"
    /\ genResponse = None
    /\ genSubject = None
    /\ unreachable = FALSE
    /\ email_body = None
    /\ message = NoMessage
    /\ recipients = <<>>
    /\ conn = "none"
    /\ smtpSteps = <<>>
    /\ smtpError = "none"
    /\ transmitted = FALSE
    /\ success = "unset"
    /\ exc = None
    /\ failedAt = "none"
    /\ result = "none"
    /\ raised = FALSE
    /\ logCalls = <<>>
    /\ writeFailed = FALSE
    /\ startedFresh = FALSE
    /\ lastWrite = "none"
    /\ clock = Len(logFile.recs)
    /\ httpGets = 0
    /\ httpPosts = 0
    /\ smtpConnects = 0
    /\ inputs = NoInputs
    /\ response = None
    /\ interrupted = FALSE

Init ==
    /\ pc = "start"
    /\ logFile \in LogFiles
    /\ Idle

\* ------------------------------------------------------------ configuration
\* ConfigManager.load_config: the record of the config file, or None when
\* the first-time setup fails.
load_config(c) ==
    /\ pc = "start"
    /\ config' = c
    /\ pc' = "ready"
    /\ UNCHANGED <<req, genVars, msgVars, smtpVars, exc, failedAt, endVars, logVars>>
    /\ UNCHANGED mainVars

\* --------------------------------------------------- send_recruitment_email
\* The call and the configuration test (lines 119-127).
send_recruitment_email(name, company, bcc, custom) ==
    /\ pc = "ready"
    /\ req' = Request(name, company, bcc, custom)
    /\ IF ~config.present
       THEN /\ pc' = "done"
            /\ result' = "false"
            /\ failedAt' = "no_config"
       ELSE /\ pc' = "subject"
            /\ UNCHANGED <<result, failedAt>>
    /\ UNCHANGED <<config, genVars, msgVars, smtpVars, exc, raised, logVars>>
    /\ UNCHANGED mainVars

\* An exception raised inside the try block of send_recruitment_email goes to
\* "except FileNotFoundError" or to "except Exception".
Raise(e, step) ==
    /\ exc' = e
    /\ failedAt' = IF failedAt = "none" THEN step ELSE failedAt
    /\ pc' = IF e = <<"FileNotFoundError">> THEN "except_file_not_found" ELSE "except_exception"

\* a send that asks the generator whether or not a subject was supplied
choose_subject_always_generates ==
    /\ pc = "subject"
    /\ IF "sender_name" \notin config.keys
       THEN /\ Raise(<<"KeyError('sender_name')">>, "config_key")
            /\ UNCHANGED subject
       ELSE /\ pc' = "is_ollama_running"
            /\ UNCHANGED <<subject, exc, failedAt>>
    /\ UNCHANGED <<config, req, genPath, genResponse, genSubject, unreachable, httpGets,
                   httpPosts, msgVars, smtpVars, endVars, logVars>>
    /\ UNCHANGED mainVars

\* Lines 131-138 up to the call of generate_subject_line, whose arguments are
\* evaluated first.
choose_subject ==
    /\ pc = "subject"
    /\ IF Truthy(req.custom_subject)
       THEN /\ subject' = req.custom_subject
            /\ pc' = "render"
            /\ UNCHANGED <<exc, failedAt>>
       ELSE IF "sender_name" \notin config.keys
       THEN /\ Raise(<<"KeyError('sender_name')">>, "config_key")
            /\ UNCHANGED subject
       ELSE /\ pc' = "is_ollama_running"
            /\ UNCHANGED <<subject, exc, failedAt>>
    /\ UNCHANGED <<config, req, genPath, genResponse, genSubject, unreachable, httpGets,
                   httpPosts, msgVars, smtpVars, endVars, logVars>>
    /\ UNCHANGED mainVars

\* generate_subject_line, lines 55-58: the status probe.
probe_ollama_running(resp) ==
    /\ pc = "is_ollama_running"
    /\ httpGets' = httpGets + 1
    /\ unreachable' = (resp.err # "none")
    /\ IF is_ollama_running(resp)
       THEN /\ pc' = "is_model_available"
            /\ UNCHANGED <<genSubject, genPath>>
       ELSE /\ genSubject' = _default_subject(config.sender_name, req.company_name)
            /\ genPath' = "not_running"
            /\ pc' = "subject_returned"
    /\ UNCHANGED <<config, req, subject, genResponse, httpPosts, msgVars, smtpVars, exc,
                   failedAt, endVars, logVars>>
    /\ UNCHANGED mainVars

\* generate_subject_line, lines 60-62: the model probe, outside any try.
probe_model_available(resp) ==
    /\ pc = "is_model_available"
    /\ httpGets' = httpGets + 1
    /\ LET r == is_model_available(resp)
       IN  IF r.raised # None
           THEN /\ Raise(r.raised, "generate")
                /\ genPath' = "raised"
           ELSE /\ pc' = IF r.value THEN "generate" ELSE "get_available_models"
                /\ UNCHANGED <<genPath, exc, failedAt>>
    /\ UNCHANGED <<config, req, subject, genResponse, genSubject, unreachable, httpPosts,
                   msgVars, smtpVars, endVars, logVars>>
    /\ UNCHANGED mainVars

\* generate_subject_line, lines 63-67: the model list, then the fallback.
probe_available_models(resp) ==
    /\ pc = "get_available_models"
    /\ httpGets' = httpGets + 1
    /\ LET r == get_available_models(resp)
       IN  IF r.raised # None
           THEN /\ Raise(r.raised, "generate")
                /\ genPath' = "raised"
                /\ UNCHANGED genSubject
           ELSE /\ genSubject' = _default_subject(config.sender_name, req.company_name)
                /\ genPath' = "model_missing"
                /\ pc' = "subject_returned"
                /\ UNCHANGED <<exc, failedAt>>
    /\ UNCHANGED <<config, req, subject, genResponse, unreachable, httpPosts, msgVars, smtpVars,
                   endVars, logVars>>
    /\ UNCHANGED mainVars

\* generate_subject_line, lines 70-115: the generation call.
post_generate(resp) ==
    /\ pc = "generate"
    /\ httpPosts' = httpPosts + 1
    /\ LET g == generate_from_response(resp, config.sender_name, req.company_name)
       IN  /\ genSubject' = g.subject
           /\ genPath' = g.path
    /\ genResponse' = IF resp.err = "none" /\ resp.status = 200 /\ resp.body.type = "object"
                         /\ resp.body.has_response /\ resp.body.is_str
                      THEN resp.body.response
                      ELSE None
    /\ pc' = "subject_returned"
    /\ UNCHANGED <<config, req, subject, unreachable, httpGets, msgVars, smtpVars, exc,
                   failedAt, endVars, logVars>>
    /\ UNCHANGED mainVars

\* Line 136: generate_subject_line has returned; its value becomes the
\* subject and its locals are gone.
assign_subject ==
    /\ pc = "subject_returned"
    /\ subject' = genSubject
    /\ genResponse' = None
    /\ pc' = "render"
    /\ UNCHANGED <<config, req, genPath, genSubject, unreachable, httpGets, httpPosts, msgVars,
                   smtpVars, exc, failedAt, endVars, logVars>>
    /\ UNCHANGED mainVars

\* Lines 140-164: the body.
render ==
    /\ pc = "render"
    /\ LET r == render_body(config, req)
       IN  IF r.raised # None
           THEN /\ Raise(r.raised, IF Head(r.raised) = "KeyError" THEN "template_field"
                                   ELSE "config_key")
                /\ UNCHANGED email_body
           ELSE /\ email_body' = r.body
                /\ pc' = "compose"
                /\ UNCHANGED <<exc, failedAt>>
    /\ UNCHANGED <<config, req, genVars, message, recipients, smtpVars, endVars, logVars>>
    /\ UNCHANGED mainVars

\* ------------------------------------------------------------- the message
\* States of the resume file when _create_email_message opens it.
ResumeStates == {"ok", "missing", "unreadable"}

\* a recipient list that takes every BCC that is not None
envelope_recipients_bcc_not_none(recipient_email, bcc_email) ==
    IF bcc_email # None THEN <<recipient_email, bcc_email>> ELSE <<recipient_email>>

\* Lines 174-176: recipients = [recipient_email], plus the BCC "if bcc_email".
envelope_recipients(recipient_email, bcc_email) ==
    IF Truthy(bcc_email) THEN <<recipient_email, bcc_email>> ELSE <<recipient_email>>

\* Lines 56-57 of _create_email_message: msg['Bcc'] is set "if bcc_email".
bcc_header(bcc_email) == IF Truthy(bcc_email) THEN bcc_email ELSE None

\* Lines 166-177: _create_email_message and the envelope recipient list.
compose(file) ==
    /\ pc = "compose"
    /\ IF "sender_name" \notin config.keys
       THEN /\ Raise(<<"KeyError('sender_name')">>, "config_key")
            /\ UNCHANGED <<message, recipients>>
       ELSE IF "sender_email" \notin config.keys
       THEN /\ Raise(<<"KeyError('sender_email')">>, "config_key")
            /\ UNCHANGED <<message, recipients>>
       ELSE IF file = "missing"
       THEN /\ Raise(<<"FileNotFoundError">>, "attachment_missing")
            /\ UNCHANGED <<message, recipients>>
       ELSE IF file = "unreadable"
       THEN /\ Raise(<<"PermissionError">>, "attachment_unreadable")
            /\ UNCHANGED <<message, recipients>>
       ELSE /\ message' = [built |-> TRUE,
                           From |-> <<config.sender_name, config.sender_email>>,
                           To |-> req.recipient_email,
                           Subject |-> subject,
                           Bcc |-> bcc_header(req.bcc_email),
                           body |-> email_body,
                           attachment |-> req.resume_file]
            /\ recipients' = envelope_recipients(req.recipient_email, req.bcc_email)
            /\ pc' = "smtp_connect"
            /\ UNCHANGED <<exc, failedAt>>
    /\ UNCHANGED <<config, req, genVars, email_body, smtpVars, endVars, logVars>>
    /\ UNCHANGED mainVars

\* ---------------------------------------------------------- _send_via_smtp
\* a delivery that starts over after a failed call
SmtpFail_retry(category, step) ==
    /\ success' = "false"
    /\ smtpError' = category
    /\ failedAt' = IF failedAt = "none" THEN step ELSE failedAt
    /\ pc' = IF smtpConnects < 2 THEN "smtp_connect" ELSE "log_attempt"

\* a delivery that carries on with the next call after a failed one
SmtpFail_carries_on(category, step) ==
    /\ success' = success
    /\ smtpError' = category
    /\ failedAt' = IF failedAt = "none" THEN step ELSE failedAt
    /\ pc' = CASE step = "smtp_connect" -> "smtp_starttls"
               [] step = "smtp_starttls" -> "smtp_login"
               [] step \in {"smtp_login", "config_key"} -> "smtp_send"
               [] step = "smtp_send" -> "smtp_quit"
               [] OTHER -> "log_attempt"

\* An except clause of _send_via_smtp: it returns False and closes nothing.
SmtpFail(category, step) ==
    /\ success' = "false"
    /\ smtpError' = category
    /\ failedAt' = IF failedAt = "none" THEN step ELSE failedAt
    /\ pc' = "log_attempt"

\* How a failed SMTP call leaves the connection: the library closes the
\* socket when the peer is gone, and leaves it open otherwise.
AfterFailure(c, category) == IF category = "disconnected" THEN "dropped" ELSE c

\* smtplib.SMTP('smtp.gmail.com', 587)
smtp_connect(o) ==
    /\ pc = "smtp_connect"
    /\ smtpSteps' = Append(smtpSteps, "connect")
    /\ smtpConnects' = smtpConnects + 1
    /\ IF o = "ok"
       THEN /\ conn' = "connected"
            /\ pc' = "smtp_starttls"
            /\ UNCHANGED <<success, smtpError, failedAt>>
       ELSE /\ SmtpFail(o, "smtp_connect")
            /\ UNCHANGED conn
    /\ UNCHANGED <<config, req, genVars, msgVars, transmitted, exc, endVars, logVars>>
    /\ UNCHANGED mainVars

\* server.starttls()
smtp_starttls(o) ==
    /\ pc = "smtp_starttls"
    /\ smtpSteps' = Append(smtpSteps, "starttls")
    /\ IF o = "ok"
       THEN /\ conn' = "encrypted"
            /\ pc' = "smtp_login"
            /\ UNCHANGED <<success, smtpError, failedAt>>
       ELSE /\ SmtpFail(o, "smtp_starttls")
            /\ conn' = AfterFailure(conn, o)
    /\ UNCHANGED <<config, req, genVars, msgVars, transmitted, smtpConnects, exc, endVars,
                   logVars>>
    /\ UNCHANGED mainVars

\* server.login(config['sender_email'], config['sender_password'])
smtp_login(o) ==
    /\ pc = "smtp_login"
    /\ IF {"sender_email", "sender_password"} \subseteq config.keys
       THEN /\ smtpSteps' = Append(smtpSteps, "login")
            /\ IF o = "ok"
               THEN /\ conn' = "authenticated"
                    /\ pc' = "smtp_send"
                    /\ UNCHANGED <<success, smtpError, failedAt>>
               ELSE /\ SmtpFail(o, "smtp_login")
                    /\ conn' = AfterFailure(conn, o)
       ELSE /\ SmtpFail("generic", "config_key")
            /\ UNCHANGED <<conn, smtpSteps>>
    /\ UNCHANGED <<config, req, genVars, msgVars, transmitted, smtpConnects, exc, endVars,
                   logVars>>
    /\ UNCHANGED mainVars

\* server.send_message(message, to_addrs=recipients)
smtp_send_message(o) ==
    /\ pc = "smtp_send"
    /\ smtpSteps' = Append(smtpSteps, "send_message")
    /\ IF o = "ok"
       THEN /\ conn' = "sent"
            /\ transmitted' = TRUE
            /\ pc' = "smtp_quit"
            /\ UNCHANGED <<success, smtpError, failedAt>>
       ELSE /\ SmtpFail(o, "smtp_send")
            /\ conn' = AfterFailure(conn, o)
            /\ UNCHANGED transmitted
    /\ UNCHANGED <<config, req, genVars, msgVars, smtpConnects, exc, endVars, logVars>>
    /\ UNCHANGED mainVars

\* server.quit() and "return True"
smtp_quit(o) ==
    /\ pc = "smtp_quit"
    /\ smtpSteps' = Append(smtpSteps, "quit")
    /\ IF o = "ok"
       THEN /\ conn' = "closed"
            /\ success' = "true"
            /\ pc' = "log_attempt"
            /\ UNCHANGED <<smtpError, failedAt>>
       ELSE /\ SmtpFail(o, "smtp_quit")
            /\ conn' = AfterFailure(conn, o)
    /\ UNCHANGED <<config, req, genVars, msgVars, transmitted, smtpConnects, exc, endVars,
                   logVars>>
    /\ UNCHANGED mainVars

\* ------------------------------------------------------------- the logging
\* The error string of line 185 for a failed delivery.
smtp_error_message(category) == SmtpFailedMessage

\* One call of log_email_activity with the given record.
LogCall(entry, w) ==
    LET r == log_email_activity(logFile, entry, w)
    IN  /\ logFile' = r.file
        /\ logCalls' = Append(logCalls, entry)
        /\ writeFailed' = (writeFailed \/ r.write = "failed")
        /\ startedFresh' = corruption_reported(logFile)
        /\ lastWrite' = r.write
        /\ clock' = clock + 1

\* Lines 182-196: log the attempt, return the outcome of the delivery.
log_attempt(w) ==
    /\ pc = "log_attempt"
    /\ LET entry == ActivityRecord(clock, req.recipient_email, req.company_name, subject,
                                   success = "true",
                                   IF success = "true" THEN None
                                   ELSE smtp_error_message(smtpError))
           r == log_email_activity(logFile, entry, w)
       IN  /\ LogCall(entry, w)
           /\ IF r.raised # None
              THEN /\ Raise(r.raised, "log")
                   /\ UNCHANGED result
              ELSE /\ result' = success
                   /\ pc' = "done"
                   /\ UNCHANGED <<exc, failedAt>>
    /\ UNCHANGED <<config, req, genVars, msgVars, smtpVars, raised>>
    /\ UNCHANGED mainVars

\* The end of an except clause of send_recruitment_email: "return False",
\* unless log_email_activity raised inside the clause.
HandlerEnd(entry, w) ==
    LET r == log_email_activity(logFile, entry, w)
    IN  /\ LogCall(entry, w)
        /\ pc' = "done"
        /\ IF r.raised # None
           THEN /\ raised' = TRUE
                /\ exc' = r.raised
                /\ UNCHANGED result
           ELSE /\ result' = "false"
                /\ UNCHANGED <<raised, exc>>

\* Lines 198-205: except FileNotFoundError.
handle_file_not_found(w) ==
    /\ pc = "except_file_not_found"
    /\ HandlerEnd(ActivityRecord(clock, req.recipient_email, req.company_name,
                                 FileNotFoundSubject, FALSE,
                                 <<"Resume file not found: ">> \o req.resume_file), w)
    /\ UNCHANGED <<config, req, genVars, msgVars, smtpVars, failedAt>>
    /\ UNCHANGED mainVars

\* Lines 207-214: except Exception.
handle_exception(w) ==
    /\ pc = "except_exception"
    /\ HandlerEnd(ActivityRecord(clock, req.recipient_email, req.company_name,
                                 UnexpectedErrorSubject, FALSE,
                                 <<"Unexpected error: ">> \o exc), w)
    /\ UNCHANGED <<config, req, genVars, msgVars, smtpVars, failedAt>>
    /\ UNCHANGED mainVars

\* ------------------------------------------------------------ specification
Next ==
    \/ \E c \in Configs \cup {NoConfig} : load_config(c)
    \/ \E name \in RecipientNames, company \in CompanyNames, bcc \in BccEmails,
          custom \in CustomSubjects : send_recruitment_email(name, company, bcc, custom)
    \/ choose_subject
    \/ \E resp \in TagsResponses : probe_ollama_running(resp)
    \/ \E resp \in TagsResponses : probe_model_available(resp)
    \/ \E resp \in TagsResponses : probe_available_models(resp)
    \/ \E resp \in GenResponses : post_generate(resp)
    \/ assign_subject
    \/ render
    \/ \E file \in ResumeStates : compose(file)
    \/ \E o \in {"ok", "generic", "disconnected"} : smtp_connect(o)
    \/ \E o \in {"ok", "generic", "disconnected"} : smtp_starttls(o)
    \/ \E o \in {"ok", "auth", "generic", "disconnected"} : smtp_login(o)
    \/ \E o \in {"ok", "recipients_refused", "generic", "disconnected"} : smtp_send_message(o)
    \/ \E o \in {"ok", "disconnected"} : smtp_quit(o)
    \/ \E w \in WriteOutcomes : log_attempt(w)
    \/ \E w \in WriteOutcomes : handle_file_not_found(w)
    \/ \E w \in WriteOutcomes : handle_exception(w)

Spec == Init /\ [][Next]_vars

\* --------------------------------------------- the log across several sends
\* The log file outlives the run: every send appends to what the sends
\* before it left.  This specification follows the file alone, from a log
\* that holds no record yet, through the log_email_activity calls of
\* successive sends.
MaxAppends == 3

InitLog ==
    /\ pc = "logging"
    /\ logFile \in { LogFile(k, <<>>) : k \in {"absent", "empty", "invalid", "array"} }
    /\ Idle

\* One more send logs its outcome (utils.py, lines 107-134).
append_record(company, sent, w) ==
    /\ pc = "logging"
    /\ Len(logCalls) < MaxAppends
    /\ LET entry == ActivityRecord(clock, RecipientEmail, company,
                                   FallbackGenericPrefix \o SenderName, sent,
                                   IF sent THEN None ELSE SmtpFailedMessage)
           r == log_email_activity(logFile, entry, w)
       IN  /\ LogCall(entry, w)
           /\ IF r.raised # None
              THEN /\ raised' = TRUE
                   /\ exc' = r.raised
                   /\ pc' = "log_raised"
              ELSE UNCHANGED <<pc, raised, exc>>
    /\ UNCHANGED <<config, req, genVars, msgVars, smtpVars, failedAt, result>>
    /\ UNCHANGED mainVars

NextLog ==
    \E company \in {None, <<"A", "c", "m", "e">>}, sent \in BOOLEAN, w \in WriteOutcomes :
        append_record(company, sent, w)

SpecLog == InitLog /\ [][NextLog]_vars

\* ------------------------------------------------------------------- main
\* validate_email: the address matches
\* ^[a-zA-Z0-9._%+-]+@[a-zA-Z0-9.-]+\.[a-zA-Z]{2,}$ once stripped.
Letters == { UpperCase[i] : i \in 1..Len(UpperCase) } \cup { LowerCase[i] : i \in 1..Len(LowerCase) }
DigitChars == <<"0", "1", "2", "3", "4", "5", "6", "7", "8", "9">>
Digits == { DigitChars[i] : i \in 1..Len(DigitChars) }
LocalChars == Letters \cup Digits \cup {".", "_", "%", "+", "-"}
DomainChars == Letters \cup Digits \cup {".", "-"}

validate_email(email) ==
    IF ~Truthy(email) THEN FALSE
    ELSE LET e == Strip(email)
             n == Len(e)
         IN  \E at \in 2..n, dot \in 3..n :
                 /\ e[at] = "@"
                 /\ e[dot] = "."
                 /\ at + 1 < dot
                 /\ \A k \in 1..(at - 1) : e[k] \in LocalChars
                 /\ \A k \in (at + 1)..(dot - 1) : e[k] \in DomainChars
                 /\ n - dot >= 2
                 /\ \A k \in (dot + 1)..n : e[k] \in Letters

\* input(...).strip(), and None "if not" the text (lines 44-50, 82-84).
optional_text(typed) == IF Strip(typed) = <<>> THEN None ELSE Strip(typed)

\* int(choice) for the selection of a resume: the number, or -1 for ValueError.
RECURSIVE ParseDigits(_, _)
ParseDigits(s, acc) ==
    IF s = <<>> THEN acc
    ELSE ParseDigits(Tail(s),
                     acc * Len(DigitChars) + (CHOOSE d \in 1..Len(DigitChars) : DigitChars[d] = s[1]) - 1)

ParseInt(s) ==
    IF s # <<>> /\ \A i \in 1..Len(s) : s[i] \in Digits THEN ParseDigits(s, 0) ELSE -1

\* a confirmation that takes the empty answer for a yes
confirm_action_default_yes(answer) ==
    IF answer \in {<<"y">>, <<"y", "e", "s">>, <<>>} THEN "true"
    ELSE IF answer \in {<<"n">>, <<"n", "o">>} THEN "false"
    ELSE "again"

\* confirm_action on one lowered and stripped answer: True, False, or the
\* prompt is shown again.
confirm_action(answer) ==
    IF answer \in {<<"y">>, <<"y", "e", "s">>} THEN "true"
    ELSE IF answer \in {<<"n">>, <<"n", "o">>, <<>>} THEN "false"
    ELSE "again"

\* ConfigManager.read_email_template for a variant whose file exists.
TemplateOf(variant) ==
    IF variant = "person_only" THEN TemplatePersonOnly ELSE TemplatePersonCompany

\* What the user types at the prompts.
TypedRecipients == {<<"a", "@", "b", ".", "c", "o", " ">>, <<"a", "@", "b">>}
TypedNames == {<<>>, <<" ">>, <<"Ann">>}
TypedCompanies == {<<>>, <<"A", "c", "m", "e">>}
TypedTemplateChoices == {<<"1">>, <<"2">>, <<>>, <<"3">>}
TypedBccs == {<<>>, <<"x", "@", "y", ".", "c", "o">>, <<"x", "@", "y">>}
TypedSubjects == {<<>>, <<"H", "e", "l", "l", "o">>}
TypedSelections == {<<>>, <<"1">>, <<"2">>, <<"3">>, <<"x">>}
TypedConfirmations ==
    {<<"y">>, <<" ", "Y", "E", "S">>, <<"n">>, <<"N", "o">>, <<>>, <<"o", "k">>}

\* The resume folder: the files find_resume_files returns, newest first.
OlderResume == <<"resume/older.pdf">>
ResumeFolders == {<<>>, <<ResumeFile>>, <<ResumeFile, OlderResume>>}

\* The positions of main at which it waits in input().
Prompts ==
    {"prompt_recipient", "prompt_name", "prompt_company", "prompt_template", "prompt_bcc",
     "prompt_subject", "prompt_resume", "prompt_confirm"}

sendVars == <<req, genVars, msgVars, smtpVars, logVars, exc, failedAt, endVars>>

\* Lines 25-31: load the configuration, return when there is none.
main_load_config(c) ==
    /\ pc = "start"
    /\ config' = c
    /\ pc' = IF c.present THEN "prompt_recipient" ELSE "exited"
    /\ UNCHANGED <<sendVars, mainVars>>

\* Lines 38-42: get_user_input with validate_email, asked again until valid.
prompt_recipient(typed) ==
    /\ pc = "prompt_recipient"
    /\ IF validate_email(Strip(typed))
       THEN /\ inputs' = [inputs EXCEPT !.recipient_email = Strip(typed)]
            /\ pc' = "prompt_name"
       ELSE UNCHANGED <<inputs, pc>>
    /\ UNCHANGED <<config, sendVars, response, interrupted>>

\* Lines 44-46.
prompt_name(typed) ==
    /\ pc = "prompt_name"
    /\ inputs' = [inputs EXCEPT !.recipient_name = optional_text(typed)]
    /\ pc' = "prompt_company"
    /\ UNCHANGED <<config, sendVars, response, interrupted>>

\* Lines 48-54: the company, then the test for the two template files.
prompt_company(typed, both_templates) ==
    /\ pc = "prompt_company"
    /\ inputs' = [inputs EXCEPT !.company_name = optional_text(typed)]
    /\ pc' = IF both_templates THEN "prompt_template" ELSE "prompt_bcc"
    /\ UNCHANGED <<config, sendVars, response, interrupted>>

\* Lines 59-71: the template choice, asked again until 1, 2 or empty.
prompt_template(typed) ==
    /\ pc = "prompt_template"
    /\ LET choice == Strip(typed)
       IN  IF choice = <<"1">>
           THEN /\ inputs' = [inputs EXCEPT !.template_choice = "person_only"]
                /\ pc' = "prompt_bcc"
           ELSE IF choice = <<"2">>
           THEN /\ inputs' = [inputs EXCEPT !.template_choice = "person_company"]
                /\ pc' = "prompt_bcc"
           ELSE IF choice = <<>>
           THEN /\ inputs' = [inputs EXCEPT !.template_choice =
                                 IF "template_preference" \in config.keys
                                 THEN config.template_preference ELSE "person_company"]
                /\ pc' = "prompt_bcc"
           ELSE UNCHANGED <<inputs, pc>>
    /\ UNCHANGED <<config, sendVars, response, interrupted>>

\* Lines 73-79: an invalid BCC is dropped.
prompt_bcc(typed) ==
    /\ pc = "prompt_bcc"
    /\ inputs' = [inputs EXCEPT !.bcc_email =
                     IF Truthy(Strip(typed)) /\ validate_email(Strip(typed))
                     THEN Strip(typed) ELSE None]
    /\ pc' = "prompt_subject"
    /\ UNCHANGED <<config, sendVars, response, interrupted>>

\* Lines 82-92: the subject, then get_resume_file up to its prompt: no file
\* ends main, one file is taken, several are offered for selection.
prompt_subject(typed, folder) ==
    /\ pc = "prompt_subject"
    /\ IF Len(folder) = 1
       THEN inputs' = [inputs EXCEPT !.custom_subject = optional_text(typed),
                                     !.resume_file = folder[1]]
       ELSE inputs' = [inputs EXCEPT !.custom_subject = optional_text(typed)]
    /\ pc' = CASE folder = <<>> -> "exited"
               [] Len(folder) = 1 -> "update_template"
               [] OTHER -> "prompt_resume"
    /\ UNCHANGED <<config, sendVars, response, interrupted>>

\* select_resume_file, lines 81-94, with the two files of the folder: asked
\* again until a number in range is typed.
prompt_resume(typed) ==
    /\ pc = "prompt_resume"
    /\ LET folder == <<ResumeFile, OlderResume>>
           index == ParseInt(Strip(typed)) - 1
       IN  IF Strip(typed) # <<>> /\ ParseInt(Strip(typed)) >= 0
              /\ 0 <= index /\ index < Len(folder)
           THEN /\ inputs' = [inputs EXCEPT !.resume_file = folder[index + 1]]
                /\ pc' = "update_template"
           ELSE UNCHANGED <<inputs, pc>>
    /\ UNCHANGED <<config, sendVars, response, interrupted>>

\* Lines 97-102: the chosen variant replaces the configured one when its
\* template can be read.
update_template(readable) ==
    /\ pc = "update_template"
    /\ IF /\ inputs.template_choice # "none"
          /\ ~("template_preference" \in config.keys
               /\ inputs.template_choice = config.template_preference)
          /\ readable
       THEN config' = [config EXCEPT !.email_template = TemplateOf(inputs.template_choice),
                                     !.template_preference = inputs.template_choice,
                                     !.keys = @ \cup {"email_template", "template_preference"}]
       ELSE UNCHANGED config
    /\ pc' = "prompt_confirm"
    /\ UNCHANGED <<sendVars, mainVars>>

\* Lines 125-127: confirm_action; a no ends main, a yes goes on to the send.
prompt_confirm(typed) ==
    /\ pc = "prompt_confirm"
    /\ response' = Strip(Lower(typed))
    /\ pc' = CASE confirm_action(Strip(Lower(typed))) = "true" -> "call_send"
               [] confirm_action(Strip(Lower(typed))) = "false" -> "exited"
               [] OTHER -> "prompt_confirm"
    /\ UNCHANGED <<config, sendVars, inputs, interrupted>>

\* Lines 131-138 with lines 119-127 of send_recruitment_email: the call with
\* what main collected.
call_send ==
    /\ pc = "call_send"
    /\ req' = [recipient_email |-> inputs.recipient_email,
               recipient_name |-> inputs.recipient_name,
               company_name |-> inputs.company_name,
               bcc_email |-> inputs.bcc_email,
               resume_file |-> inputs.resume_file,
               custom_subject |-> inputs.custom_subject]
    /\ IF ~config.present
       THEN /\ pc' = "done"
            /\ result' = "false"
            /\ failedAt' = "no_config"
       ELSE /\ pc' = "subject"
            /\ UNCHANGED <<result, failedAt>>
    /\ UNCHANGED <<config, genVars, msgVars, smtpVars, exc, raised, logVars, mainVars>>

\* Lines 146-147: Ctrl-C while main waits in input() raises
\* KeyboardInterrupt, main reports it and ends.
keyboard_interrupt ==
    /\ pc \in Prompts
    /\ interrupted' = TRUE
    /\ pc' = "exited"
    /\ UNCHANGED <<config, sendVars, inputs, response>>

\* Lines 140-150: main reports the outcome, or the exception the send let
\* escape, and ends.
main_finish ==
    /\ pc = "done"
    /\ pc' = "exited"
    /\ UNCHANGED <<config, sendVars, mainVars>>

\* The states of the log file, and the answers of the generation service and
\* of the relay, that the runs of main are followed with.
MainLogFiles == {LogFile("absent", <<>>), LogFile("unreadable", <<>>)}
MainTagsResponses ==
    { r \in TagsResponses : r.err = "connection" \/ (r.status = 200 /\ r.body.has_models) }
MainGenResponses ==
    { r \in GenResponses :
          r.err = "timeout" \/ (r.status = 200 /\ r.body.is_str /\ Len(r.body.response) = 2) }

InitMain ==
    /\ pc = "start"
    /\ logFile \in MainLogFiles
    /\ Idle

NextMain ==
    \/ \E c \in Configs \cup {NoConfig} : main_load_config(c)
    \/ \E typed \in TypedRecipients : prompt_recipient(typed)
    \/ \E typed \in TypedNames : prompt_name(typed)
    \/ \E typed \in TypedCompanies, both_templates \in BOOLEAN : prompt_company(typed, both_templates)
    \/ \E typed \in TypedTemplateChoices : prompt_template(typed)
    \/ \E typed \in TypedBccs : prompt_bcc(typed)
    \/ \E typed \in TypedSubjects, folder \in ResumeFolders : prompt_subject(typed, folder)
    \/ \E typed \in TypedSelections : prompt_resume(typed)
    \/ \E readable \in BOOLEAN : update_template(readable)
    \/ \E typed \in TypedConfirmations : prompt_confirm(typed)
    \/ keyboard_interrupt
    \/ call_send
    \/ choose_subject
    \/ \E resp \in MainTagsResponses : probe_ollama_running(resp)
    \/ \E resp \in MainTagsResponses : probe_model_available(resp)
    \/ \E resp \in MainTagsResponses : probe_available_models(resp)
    \/ \E resp \in MainGenResponses : post_generate(resp)
    \/ assign_subject
    \/ render
    \/ \E file \in ResumeStates : compose(file)
    \/ \E o \in {"ok", "disconnected"} : smtp_connect(o)
    \/ \E o \in {"ok", "disconnected"} : smtp_starttls(o)
    \/ \E o \in {"ok", "auth"} : smtp_login(o)
    \/ \E o \in {"ok", "recipients_refused"} : smtp_send_message(o)
    \/ \E o \in {"ok", "disconnected"} : smtp_quit(o)
    \/ \E w \in WriteOutcomes : log_attempt(w)
    \/ \E w \in WriteOutcomes : handle_file_not_found(w)
    \/ \E w \in WriteOutcomes : handle_exception(w)
    \/ main_finish

SpecMain == InitMain /\ [][NextMain]_vars

\* ------------------------------------------------------------------ claims
\* The send has ended: send_recruitment_email returned or let an exception
\* escape.
Ended == pc = "done"

\* generate_subject_line has just returned.
SubjectReturned == pc = "subject_returned"

\* The categories of delivery failure, one per except clause of
\* _send_via_smtp.
SmtpCategories == {"auth", "recipients_refused", "disconnected", "generic"}

\* The fallback subject as section 4.1 of the specification states it.
ExpectedFallback ==
    IF req.company_name # None /\ req.company_name # <<>> /\ req.company_name # GenericCompany
    THEN FallbackWithCompanyPrefix \o req.company_name \o NameSeparator \o config.sender_name
    ELSE FallbackGenericPrefix \o config.sender_name

\* C1: every call of send_recruitment_email hands exactly one ActivityRecord
\* to the log, whatever stage the attempt fails at, missing configuration
\* included.
C1_ExactlyOneRecordPerAttempt == Ended => Len(logCalls) = 1

\* C2: generate_subject_line never lets an exception escape, whatever the
\* generation service answers to the probes and to the generation call.
C2_GenerateNeverRaises == genPath # "raised"

\* C3: once _send_via_smtp has returned, a connection it opened is closed.
C3_ConnectionClosedOnReturn ==
    (success # "unset" /\ conn # "none") => conn \in {"closed", "dropped"}

\* C4: the error logged for a failed delivery tells its category apart from
\* every other category: it is not the error value logged for another one.
C4_DistinctErrorCategories ==
    (smtpError # "none" /\ logCalls # <<>>) =>
        \A c \in SmtpCategories \ {smtpError} : logCalls[1].error # smtp_error_message(c)

\* C5: a send that fails on a configuration error (a template field that is
\* not supplied, a missing configuration key) or on an attachment error has
\* made no network call: no request to the generation service and no SMTP
\* connection attempt.
C5_NoNetworkBeforeAbort ==
    failedAt \in {"template_field", "config_key", "attachment_missing", "attachment_unreadable"}
        => httpGets = 0 /\ httpPosts = 0 /\ smtpConnects = 0

\* C6: when the resume path does not exist, no SMTP connection is attempted,
\* send_recruitment_email returns False, and one ActivityRecord with
\* success = false and an error is logged.
C6_MissingResumeLoggedAndFalse ==
    (Ended /\ failedAt = "attachment_missing") =>
        /\ smtpConnects = 0
        /\ result = "false"
        /\ Len(logCalls) = 1
        /\ ~logCalls[1].success
        /\ logCalls[1].error # None

\* C7: when a write of the log file fails, no exception escapes and
\* send_recruitment_email returns the outcome of the delivery: what
\* _send_via_smtp returned, False when the delivery was never attempted.
C7_LogWriteFailureDoesNotAbort ==
    (Ended /\ writeFailed) =>
        /\ ~raised
        /\ result = IF success = "unset" THEN "false" ELSE success

\* C7 witness: the email was delivered, the log write failed, and the call
\* returned True.
C7_Witness == Ended /\ writeFailed /\ success = "true" /\ result = "true" /\ ~raised

\* C8: when the generation service is unreachable, generate_subject_line
\* returns exactly the deterministic fallback for the company rule, and no
\* generation call is issued.
C8_UnreachableGivesFallback ==
    (SubjectReturned /\ unreachable) => genSubject = ExpectedFallback /\ httpPosts = 0

\* C8 witness: the service is unreachable and the company is the generic
\* default, so the subject is the one without a company.
C8_Witness ==
    /\ SubjectReturned /\ unreachable
    /\ req.company_name = GenericCompany
    /\ genSubject = FallbackGenericPrefix \o config.sender_name

\* The generated answer runs to more than 80 characters after cleaning.
LongAnswer ==
    /\ SubjectReturned
    /\ genResponse # None
    /\ Len(CleanedUntruncated(Strip(genResponse))) > MaxSubjectLen

\* C9 as stated: every generated subject longer than 80 characters after
\* cleaning is returned with length at most 80 and ending with "...".
C9_LongSubjectAlwaysTruncated ==
    LongAnswer => Len(genSubject) <= MaxSubjectLen /\ EndsWith(genSubject, Ellipsis)

\* C9 amended: for a generated subject longer than 80 characters after
\* cleaning, the returned string has length at most 80 and ends with "...",
\* or it is the deterministic fallback, returned because the truncated
\* string fails validation.
C9_LongSubjectTruncatedOrFallback ==
    LongAnswer =>
        \/ /\ Len(genSubject) <= MaxSubjectLen
           /\ EndsWith(genSubject, Ellipsis)
           /\ genPath = "generated"
        \/ /\ genSubject = ExpectedFallback
           /\ genPath = "invalid"
           /\ ~_is_valid_subject(SubSeq(CleanedUntruncated(Strip(genResponse)), 1, TruncLen)
                                 \o Ellipsis)

\* C9 witness: a long answer that passes validation is returned truncated.
C9_Witness ==
    /\ LongAnswer
    /\ Len(genSubject) = MaxSubjectLen
    /\ EndsWith(genSubject, Ellipsis)
    /\ genSubject # ExpectedFallback

\* C10: a template with a placeholder that the selected variant does not
\* supply makes the send fail visibly: send_recruitment_email returns False,
\* nothing is transmitted and the attempt is logged with success = false;
\* and rendering fails on a field only when the variant does not supply it.
C10_MissingPlaceholderSurfaced ==
    /\ (Ended /\ failedAt = "template_field") =>
           /\ result = "false"
           /\ ~transmitted
           /\ logCalls # <<>>
           /\ ~logCalls[1].success
    /\ failedAt = "template_field" =>
           /\ config.template_preference = "person_only"
           /\ \E i \in 1..Len(config.email_template) : config.email_template[i] = Ph("company")

\* C11: N records appended by log_email_activity to a log that held none
\* (absent, empty, or holding no parseable record) read back as exactly
\* those N records in the order they were appended, each with its success
\* flag and its timestamp; and a call whose write succeeds leaves the
\* records already in the file as they were and puts the new one last.
\* (log_email_activity swallows a failed write, so the statement is about
\* the calls whose write succeeded.)
AppendedInOrder ==
    (logCalls # <<>> /\ ~writeFailed) =>
        /\ ~raised
        /\ show_recent_emails(logFile) = ReadBack(TRUE, logCalls)
        /\ \A i \in 1..Len(logFile.recs) :
               /\ logFile.recs[i].success \in BOOLEAN
               /\ logFile.recs[i].timestamp \in Nat

AppendKeepsEarlier ==
    (Len(logCalls') = Len(logCalls) + 1 /\ lastWrite' = "ok") =>
        /\ logFile'.kind = "array"
        /\ logFile'.recs = Append(show_recent_emails(logFile).recs, logCalls'[Len(logCalls')])

C11_AppendRoundTrip == [](AppendedInOrder) /\ [][AppendKeepsEarlier]_vars

C11_Witness ==
    /\ Len(logCalls) = MaxAppends
    /\ ~writeFailed
    /\ logFile.kind = "array"
    /\ Len(logFile.recs) = MaxAppends
    /\ logFile.recs[1].success # logFile.recs[2].success

\* C12: a send with no recipient name, no company, no BCC and no custom
\* subject, whose delivery went through (_send_via_smtp returned True)
\* while the generation service was unreachable, returns True, carries the
\* subject "Software Engineer Application - {sender_name}" in the message
\* and in the log record, and logs exactly one record, with success = true.
PlainRequestDegraded ==
    /\ req.recipient_name = None
    /\ req.company_name = None
    /\ req.bcc_email = None
    /\ req.custom_subject = None
    /\ unreachable
    /\ success = "true"

C12_DegradedSubjectStillSends ==
    (Ended /\ PlainRequestDegraded) =>
        /\ result = "true"
        /\ ~raised
        /\ message.Subject = FallbackGenericPrefix \o config.sender_name
        /\ Len(logCalls) = 1
        /\ logCalls[1].success
        /\ logCalls[1].subject = FallbackGenericPrefix \o config.sender_name

\* C13 as stated: with a non-empty custom subject no request goes to the
\* generation service, and the composed message and the log record carry
\* exactly the custom subject.
C13_CustomSubjectInEveryRecord ==
    Truthy(req.custom_subject) =>
        /\ httpGets = 0 /\ httpPosts = 0 /\ genPath = "not_called"
        /\ message.built => message.Subject = req.custom_subject
        /\ \A i \in 1..Len(logCalls) : logCalls[i].subject = req.custom_subject

\* C13, amended: with a non-empty custom subject no request goes to the
\* generation service, the composed message carries exactly the custom
\* subject, and so does the record logged for the delivery attempt; a send
\* that fails before the delivery (rendering, composing) logs the fixed
\* subject of its except clause instead.
C13_CustomSubjectBypassesGenerator ==
    Truthy(req.custom_subject) =>
        /\ httpGets = 0 /\ httpPosts = 0 /\ genPath = "not_called"
        /\ subject \in {None, req.custom_subject}
        /\ message.built => message.Subject = req.custom_subject
        /\ (success # "unset" /\ logCalls # <<>>) => logCalls[1].subject = req.custom_subject
        /\ (success = "unset" /\ logCalls # <<>>) =>
               logCalls[1].subject \in {FileNotFoundSubject, UnexpectedErrorSubject}

C13_Witness ==
    /\ Ended
    /\ Truthy(req.custom_subject)
    /\ result = "true"
    /\ message.Subject = req.custom_subject
    /\ Len(logCalls) = 1
    /\ logCalls[1].subject = req.custom_subject

\* C14: one call of send_recruitment_email opens at most one SMTP
\* connection, issues at most one POST /api/generate and makes no SMTP call
\* twice; a failed generation request ends in the fallback subject and a
\* failed delivery in a False outcome of _send_via_smtp, after which no
\* further SMTP call is pending and the send never returns True.
GenerationFailures == {"timeout", "request_failed", "api_error", "unexpected"}

SmtpPositions == {"smtp_connect", "smtp_starttls", "smtp_login", "smtp_send", "smtp_quit"}

C14_NoRetry ==
    /\ smtpConnects <= 1
    /\ httpPosts <= 1
    /\ \A i, j \in 1..Len(smtpSteps) : smtpSteps[i] = smtpSteps[j] => i = j
    /\ genPath \in GenerationFailures =>
           /\ httpPosts = 1
           /\ pc # "generate"
           /\ genSubject = ExpectedFallback
    /\ smtpError # "none" =>
           /\ smtpConnects = 1
           /\ success = "false"
           /\ pc \notin SmtpPositions
           /\ result # "true"

C14_Witness ==
    /\ Ended
    /\ genPath = "timeout"
    /\ httpPosts = 1
    /\ smtpError = "disconnected"
    /\ smtpSteps = <<"connect", "starttls">>
    /\ smtpConnects = 1
    /\ result = "false"

\* C16: the SMTP calls made are always a prefix of connect, starttls,
\* login, send_message, quit; each call is made only in the session state
\* the call before it produced (starttls on a connected session, login on
\* an encrypted one, send_message on an authenticated one, quit after the
\* message was sent) and only while no call has failed; the session state
\* moves one stage at a time or drops; and once a call has failed
\* _send_via_smtp has returned False and no SMTP call is pending.
SessionOrder == <<"connect", "starttls", "login", "send_message", "quit">>

SessionStage(c) ==
    CASE c = "none" -> 0
      [] c = "connected" -> 1
      [] c = "encrypted" -> 2
      [] c = "authenticated" -> 3
      [] c = "sent" -> 4
      [] c = "closed" -> 5
      [] OTHER -> 6

SessionInOrder ==
    /\ Len(smtpSteps) <= Len(SessionOrder)
    /\ smtpSteps = SubSeq(SessionOrder, 1, Len(smtpSteps))
    /\ conn # "dropped" => SessionStage(conn) <= Len(smtpSteps)
    /\ transmitted => Len(smtpSteps) >= 4
    /\ smtpError # "none" =>
           /\ success = "false"
           /\ pc \notin SmtpPositions
           /\ result # "true"
           /\ conn # "closed"

SessionStep ==
    /\ smtpSteps' # smtpSteps =>
           /\ smtpError = "none"
           /\ success = "unset"
           /\ smtpSteps' = Append(smtpSteps, SessionOrder[Len(smtpSteps) + 1])
           /\ SessionStage(conn) = Len(smtpSteps)
    /\ conn' # conn =>
           \/ conn' = "dropped"
           \/ /\ SessionStage(conn') = SessionStage(conn) + 1
              /\ smtpSteps' = Append(smtpSteps, SessionOrder[SessionStage(conn')])
    /\ smtpError' # smtpError =>
           /\ smtpError = "none"
           /\ success' = "false"
           /\ pc' \notin SmtpPositions
           /\ transmitted' = transmitted

C16_SessionAdvancesInOrder == [](SessionInOrder) /\ [][SessionStep]_vars

C16_Witness ==
    /\ Ended
    /\ smtpError = "auth"
    /\ smtpSteps = <<"connect", "starttls", "login">>
    /\ conn = "encrypted"
    /\ ~transmitted
    /\ result = "false"

\* C17: when the existing log file cannot be parsed (it is empty or holds
\* text that is not JSON), log_email_activity returns normally, and the
\* log it writes holds exactly the one new record.
Unparseable == {"empty", "invalid"}

RecoversFromUnparseable ==
    (logFile.kind \in Unparseable /\ Len(logCalls') = Len(logCalls) + 1) =>
        /\ ~raised'
        /\ pc' = "logging"
        /\ lastWrite' # "not_reached"
        /\ lastWrite' = "ok" => logFile' = LogFile("array", <<logCalls'[Len(logCalls')]>>)

C17_UnparseableLogStartsFresh == [][RecoversFromUnparseable]_vars

C17_Witness ==
    /\ Len(logCalls) = 2
    /\ startedFresh
    /\ lastWrite = "ok"
    /\ ~raised
    /\ logFile = LogFile("array", <<logCalls[2]>>)

\* C18: once the message is composed, the envelope recipient list is the
\* primary recipient followed by the BCC address when a BCC was given, and
\* the primary recipient alone when the BCC is None or the empty string;
\* it never holds an empty entry; and the message has a Bcc header exactly
\* when the list holds the BCC address, with that address.
C18_EnvelopeMatchesBcc ==
    message.built =>
        /\ recipients = IF req.bcc_email = None \/ req.bcc_email = <<>>
                        THEN <<req.recipient_email>>
                        ELSE <<req.recipient_email, req.bcc_email>>
        /\ \A i \in 1..Len(recipients) : recipients[i] # <<>> /\ recipients[i] # None
        /\ message.Bcc # None <=> Len(recipients) = 2
        /\ message.Bcc # None => message.Bcc = recipients[2]

C18_Witness ==
    /\ transmitted
    /\ req.bcc_email = <<>>
    /\ recipients = <<RecipientEmail>>
    /\ message.Bcc = None

\* C19: whatever generate_subject_line returns is the deterministic
\* fallback, or it is the cleaned form of the generated answer and that
\* form is not empty, has at least 5 characters once stripped, and holds
\* none of the disqualifying markers in any letter case; so an answer whose
\* cleaned form is empty, too short or marked is never returned.
Disqualified(cleaned) ==
    \/ cleaned = <<>>
    \/ Len(Strip(cleaned)) < 5
    \/ \E b \in bad_indicators : Contains(Lower(cleaned), b)

C19_ReturnedSubjectIsValidOrFallback ==
    SubjectReturned =>
        \/ genSubject = ExpectedFallback
        \/ /\ genResponse # None
           /\ genSubject = _clean_subject(Strip(genResponse))
           /\ ~Disqualified(genSubject)

\* C19 witness: the answer "Sorry, I cannot" is clean, long enough and
\* holds a marker in another letter case; the fallback is returned.
C19_Witness ==
    /\ SubjectReturned
    /\ genResponse # None
    /\ Len(Strip(_clean_subject(Strip(genResponse)))) >= 5
    /\ \E b \in bad_indicators :
           /\ Contains(Lower(_clean_subject(Strip(genResponse))), b)
           /\ ~Contains(_clean_subject(Strip(genResponse)), b)
    /\ genSubject = ExpectedFallback

\* C20: the reported outcome matches what was transmitted: when
\* send_message completed, send_recruitment_email returns True and the
\* record it logs has success = true, also when the quit that follows
\* fails; and it returns True only when send_message completed.
C20_OutcomeMatchesTransmission ==
    Ended =>
        /\ transmitted =>
               /\ result = "true"
               /\ logCalls # <<>>
               /\ logCalls[1].success
        /\ result = "true" => transmitted

\* C15: a run of main that was interrupted at a prompt has ended without an
\* escaping exception, has issued no request, opened no SMTP connection,
\* sent nothing and made no call that writes the activity log; and whenever
\* the send has been entered the last answer to the final confirmation was
\* a yes and no interrupt was taken.
YesAnswers == {<<"y">>, <<"y", "e", "s">>}

SendEntered ==
    \/ req # NoRequest
    \/ smtpConnects > 0
    \/ httpGets > 0
    \/ httpPosts > 0
    \/ transmitted
    \/ logCalls # <<>>
    \/ pc = "call_send"

C15_InterruptEndsCleanly ==
    /\ interrupted =>
           /\ pc = "exited"
           /\ ~raised
           /\ ~SendEntered
           /\ conn = "none"
           /\ lastWrite = "none"
           /\ logFile \in MainLogFiles
    /\ SendEntered =>
           /\ response \in YesAnswers
           /\ ~interrupted

\* C15 witness: the interrupt came at the final confirmation, shown again
\* after an answer that was neither yes nor no.
C15_Witness ==
    /\ interrupted
    /\ pc = "exited"
    /\ response = <<"o", "k">>
    /\ inputs.resume_file = OlderResume
    /\ inputs.bcc_email = None

\* C21: log_email_activity returns normally whatever state the existing
\* log file is in (absent, empty, not JSON, unreadable, JSON that is no
\* array): no step of the send fails in the log call, so
\* send_recruitment_email never lets an exception escape to its caller, and
\* a send whose delivery went through (_send_via_smtp returned True) never
\* ends with False returned.
C21_LogStateNeverAbortsSend ==
    /\ failedAt # "log"
    /\ ~raised
    /\ (Ended /\ transmitted /\ success = "true") => result # "false"

====
